---------------------------- MODULE Spec2Model ----------------------------
(***************************************************************************)
(* The interactive composition engine of Ai-Canvas-Composer: the element   *)
(* store, the undo/redo history, the asynchronous AI and upload handlers   *)
(* of src/App.tsx and the drag / resize gestures of                        *)
(* src/components/DraggableElement.tsx.                                    *)
(*                                                                         *)
(* One action is one event handler (or one continuation of an async        *)
(* handler after an await).  React re-renders between two events, so a     *)
(* synchronous handler reads the current state; an async handler keeps the *)
(* values its closure captured when it was called, and those are modelled  *)
(* as fields of the task that is in flight.                                *)
(*                                                                         *)
(* Specifications: Spec is the editor from an empty canvas; MapperSpec is  *)
(* the coordinate mapper on bounded inputs; ResizeSpec is the resize       *)
(* gestures on a populated store; ExportSpec is the export handlers of     *)
(* src/App.tsx (319-521), interleaved with editor events, on the stores    *)
(* of four sessions.  In Spec no export runs and the background is not     *)
(* loaded; what handleGenerateEditableDesign needs of it is the input      *)
(* hasInputs.                                                              *)
(***************************************************************************)
EXTENDS Integers, Sequences, FiniteSets, TLC

VARIABLES
    elements,            \* App.tsx:54   DesignElement[] (order = z-order)
    selectedElementId,   \* App.tsx:55   id of the selected element, or NullId
    history,             \* App.tsx:58   undo stack of snapshots, oldest first
    redoStack,           \* App.tsx:59   redo stack of snapshots
    logoImage,           \* App.tsx:44   uploaded logo data URL, or NoImage
    isAnalyzing,         \* App.tsx:62
    isGeneratingObject,  \* App.tsx:63
    now,                 \* the value Date.now() returned last
    logoTask,            \* handleLogoUpload between its await and its resumption
    objectTask,          \* handleGenerateAIObject in flight
    designTask,          \* handleGenerateEditableDesign in flight
    textArtTask,         \* handleGenerateTextArt in flight
    gesture,             \* local state of the DraggableElement under the pointer
    bgImage,             \* App.tsx:42   background data URL, or NoImage
    isDownloading,       \* App.tsx:64
    isTransparentMode,   \* App.tsx:71
    exportTask,          \* the export handler in flight (App.tsx:342-479)
    exports,             \* history variable: number of exports started so far
    lastOp,              \* history variable: the handler that ran last, with its arguments
    undoneFrom,          \* history variable: the sequence an effective undo replaced
    redoOrder,           \* history variable: push order of the entries of redoStack
    steps                \* history variable: number of handler runs so far

storeVars == <<elements, selectedElementId, history, redoStack, logoImage>>
flagVars == <<isAnalyzing, isGeneratingObject>>
taskVars == <<logoTask, objectTask, designTask, textArtTask>>
exportVars ==
    <<bgImage, isDownloading, isTransparentMode, exportTask, exports>>
ghostVars == <<lastOp, undoneFrom, redoOrder, steps>>
vars == <<storeVars, flagVars, now, taskVars, gesture, exportVars, ghostVars>>

----------------------------------------------------------------------------
(* Bounds of the model. *)

\* number of handler runs (events and async continuations) of a behaviour
MaxSteps == 5

----------------------------------------------------------------------------
(* Values. *)

\* useState({ width: 800, height: 800 })
CanvasW == 800
CanvasH == 800

\* null as a selected id; element ids are records [k, t] for `${k}-${t}`
NullId == [k |-> "null", t |-> 0]
MainLogoId == [k |-> "main-logo", t |-> 0]
TimedId(prefix, t) == [k |-> prefix, t |-> t]

\* null image (logoImage) and undefined field values
NoImage == "null"
Undefined == "undefined"

\* no snapshot recorded (history variable undoneFrom)
NoSnapshot == [set |-> FALSE, els |-> <<>>]
Snapshot(els) == [set |-> TRUE, els |-> els]

\* JavaScript numbers that are not plain integers, kept apart from the integers
Num(n) == [t |-> "fin", v |-> n]
PosInfinity == [t |-> "inf", v |-> 1]
NaN == [t |-> "nan", v |-> 0]

\* the string `${n}px`
Px(num) == [num |-> num, unit |-> "px"]

ElementIds(els) == {els[i].id : i \in 1..Len(els)}

\* Array.prototype.filter
RECURSIVE FilterOutId(_, _)
FilterOutId(els, id) ==
    IF els = <<>> THEN <<>>
    ELSE IF Head(els).id # id
         THEN <<Head(els)>> \o FilterOutId(Tail(els), id)
         ELSE FilterOutId(Tail(els), id)

\* { ...el, ...updates }
Spread(el, updates) ==
    [f \in (DOMAIN el) \cup (DOMAIN updates) |->
        IF f \in DOMAIN updates THEN updates[f] ELSE el[f]]

\* mutant of MapUpdate: the id test is lost, every element takes the updates
MapUpdate_everyElement(els, id, updates) ==
    [i \in 1..Len(els) |-> Spread(els[i], updates)]

\* prev.map(el => el.id === id ? { ...el, ...updates } : el)
MapUpdate(els, id, updates) ==
    [i \in 1..Len(els) |->
        IF els[i].id = id THEN Spread(els[i], updates) ELSE els[i]]

\* initialResizeData === null
NoResizeData == [width |-> 0, mouseX |-> 0, mouseY |-> 0, fontSize |-> NaN,
                 isNull |-> TRUE]

\* a component outside any gesture, its listeners removed.  moves,
\* startSteps and startHistLen are
\* history variables: the pointer-moves of the gesture so far, and the step
\* count and the length of the undo stack when it started.  The
\* DraggableElement of an element that left the store is unmounted.
IdleGesture ==
    [el |-> NullId, isDragging |-> FALSE, isResizing |-> FALSE,
     position |-> [x |-> 0, y |-> 0], dragOffset |-> [x |-> 0, y |-> 0],
     initialResizeData |-> NoResizeData, listening |-> FALSE,
     moves |-> 0, startSteps |-> 0, startHistLen |-> 0]

\* mutant of EffectDeps: the two mode flags are not among the dependencies
EffectDeps_noFlags(g) ==
    <<g.dragOffset, g.initialResizeData, g.el, g.position>>

\* the dependencies of the listener effect (DraggableElement.tsx:141) that
\* are state of the component
EffectDeps(g) ==
    <<g.isDragging, g.isResizing, g.dragOffset, g.initialResizeData, g.el,
      g.position>>

\* the listener effect after the render that follows a handler: when a
\* dependency changed, its cleanup removes the window listeners and it
\* adds them again if the component is dragging or resizing.  listening
\* says whether the mousemove and mouseup listeners are registered
WithEffect(prev, next) ==
    IF EffectDeps(next) # EffectDeps(prev)
    THEN [next EXCEPT !.listening = next.isDragging \/ next.isResizing]
    ELSE next

Remount(g, els) == IF g.el \in ElementIds(els) THEN g ELSE IdleGesture

Op(name) == [op |-> name]


----------------------------------------------------------------------------
(* Inputs of the handlers. *)

\* imageUrlInput when the insert button is pressed ("" = nothing typed)
UrlInputs == {"", "http://img"}
\* data URLs fileToDataUrl yields for the uploaded logo files
LogoUrls == {"data:image/png;logo"}
\* what removeBackground returns for a generated sticker / typography image
StickerImage == "data:image/png;sticker"
TextArtImage == "data:image/png;textart"

TextRecord(id, content, x, y, style) ==
    [id |-> id, type |-> "text", content |-> content, x |-> x, y |-> y,
     style |-> style]
ImageRecord(id, type, content, x, y, width) ==
    [id |-> id, type |-> type, content |-> content, x |-> x, y |-> y,
     width |-> width]

\* Date.now(): the clock never runs backwards; it returns the value it
\* returned last (same millisecond) or a later one
ClockReads == {now, now + 1}

----------------------------------------------------------------------------
(* History: saveHistory, handleUndo, handleRedo (App.tsx:75-96). *)

\* setHistory(prev => [...prev, elements])
PushSnapshot(prev, snapshot) == Append(prev, snapshot)

\* saveHistory(), called with the `elements` its closure holds
saveHistory(closureElements) ==
    /\ history' = PushSnapshot(history, closureElements)
    /\ redoStack' = <<>>
    /\ redoOrder' = <<>>

\* every handler run is one step of the bounded behaviour
Step == steps < MaxSteps /\ steps' = steps + 1

\* mutant of handleUndo: the empty-stack guard is lost (history[-1] is
\* undefined)
handleUndo_noGuard ==
    /\ Step
    /\ UNCHANGED exportVars
    /\ lastOp' = [op |-> "undo", effective |-> Len(history) # 0]
    /\ redoStack' = <<elements>> \o redoStack
    /\ redoOrder' = <<Len(redoStack) + 1>> \o redoOrder
    /\ elements' = IF Len(history) = 0 THEN <<>> ELSE history[Len(history)]
    /\ history' = SubSeq(history, 1, Len(history) - 1)
    /\ undoneFrom' = IF Len(history) = 0 THEN NoSnapshot ELSE Snapshot(elements)
    /\ gesture' = Remount(gesture, elements')
    /\ UNCHANGED <<selectedElementId, logoImage, flagVars, now, taskVars>>

\* mutant of handleUndo: the undone sequence is pushed at the back of the
\* redo stack, [...prev, elements]
handleUndo_appendsRedo ==
    /\ Step
    /\ UNCHANGED exportVars
    /\ lastOp' = [op |-> "undo", effective |-> Len(history) # 0]
    /\ IF Len(history) = 0
       THEN /\ UNCHANGED <<elements, history, redoStack, redoOrder, gesture>>
            /\ undoneFrom' = NoSnapshot
       ELSE /\ redoStack' = Append(redoStack, elements)
            /\ redoOrder' = Append(redoOrder, Len(redoStack) + 1)
            /\ elements' = history[Len(history)]
            /\ history' = SubSeq(history, 1, Len(history) - 1)
            /\ undoneFrom' = Snapshot(elements)
            /\ gesture' = Remount(gesture, elements')
    /\ UNCHANGED <<selectedElementId, logoImage, flagVars, now, taskVars>>

\* mutant of handleUndo: an effective undo clears the selection
handleUndo_clearsSelection ==
    /\ Step
    /\ UNCHANGED exportVars
    /\ lastOp' = [op |-> "undo", effective |-> Len(history) # 0]
    /\ IF Len(history) = 0
       THEN /\ UNCHANGED <<elements, history, redoStack, redoOrder, gesture,
                           selectedElementId>>
            /\ undoneFrom' = NoSnapshot
       ELSE /\ redoStack' = <<elements>> \o redoStack
            /\ redoOrder' = <<Len(redoStack) + 1>> \o redoOrder
            /\ elements' = history[Len(history)]
            /\ history' = SubSeq(history, 1, Len(history) - 1)
            /\ undoneFrom' = Snapshot(elements)
            /\ gesture' = Remount(gesture, elements')
            /\ selectedElementId' = NullId
    /\ UNCHANGED <<logoImage, flagVars, now, taskVars>>

handleUndo ==
    /\ Step
    /\ UNCHANGED exportVars
    /\ lastOp' = [op |-> "undo", effective |-> Len(history) # 0]
    /\ IF Len(history) = 0
       THEN /\ UNCHANGED <<elements, history, redoStack, redoOrder, gesture>>
            /\ undoneFrom' = NoSnapshot
       ELSE /\ redoStack' = <<elements>> \o redoStack
            /\ redoOrder' = <<Len(redoStack) + 1>> \o redoOrder
            /\ elements' = history[Len(history)]
            /\ history' = SubSeq(history, 1, Len(history) - 1)
            /\ undoneFrom' = Snapshot(elements)
            /\ gesture' = Remount(gesture, elements')
    /\ UNCHANGED <<selectedElementId, logoImage, flagVars, now, taskVars>>

\* mutant of handleRedo: the entry at the back of the redo stack is taken
handleRedo_takesLast ==
    /\ Step
    /\ UNCHANGED exportVars
    /\ lastOp' = [op |-> "redo", effective |-> Len(redoStack) # 0]
    /\ IF Len(redoStack) = 0
       THEN /\ UNCHANGED <<elements, history, redoStack, redoOrder, gesture>>
            /\ undoneFrom' = NoSnapshot
       ELSE /\ history' = PushSnapshot(history, elements)
            /\ elements' = redoStack[Len(redoStack)]
            /\ redoStack' = SubSeq(redoStack, 1, Len(redoStack) - 1)
            /\ redoOrder' = SubSeq(redoOrder, 1, Len(redoOrder) - 1)
            /\ undoneFrom' = IF lastOp.op = "undo" THEN undoneFrom ELSE NoSnapshot
            /\ gesture' = Remount(gesture, elements')
    /\ UNCHANGED <<selectedElementId, logoImage, flagVars, now, taskVars>>

handleRedo ==
    /\ Step
    /\ UNCHANGED exportVars
    /\ lastOp' = [op |-> "redo", effective |-> Len(redoStack) # 0]
    /\ IF Len(redoStack) = 0
       THEN /\ UNCHANGED <<elements, history, redoStack, redoOrder, gesture>>
            /\ undoneFrom' = NoSnapshot
       ELSE /\ history' = PushSnapshot(history, elements)
            /\ elements' = redoStack[1]
            /\ redoStack' = Tail(redoStack)
            /\ redoOrder' = Tail(redoOrder)
            /\ undoneFrom' = IF lastOp.op = "undo" THEN undoneFrom ELSE NoSnapshot
            /\ gesture' = Remount(gesture, elements')
    /\ UNCHANGED <<selectedElementId, logoImage, flagVars, now, taskVars>>

----------------------------------------------------------------------------
(* Synchronous mutations of the store (App.tsx:98-103, 155-172, 308-315). *)

handleDeleteSelected ==
    /\ Step
    /\ UNCHANGED exportVars
    /\ lastOp' = [op |-> "delete", id |-> selectedElementId]
    /\ undoneFrom' = NoSnapshot
    /\ IF selectedElementId = NullId
       THEN UNCHANGED <<elements, selectedElementId, history, redoStack,
                        redoOrder, gesture>>
       ELSE /\ saveHistory(elements)
            /\ elements' = FilterOutId(elements, selectedElementId)
            /\ selectedElementId' = NullId
            /\ gesture' = Remount(gesture, elements')
    /\ UNCHANGED <<logoImage, flagVars, now, taskVars>>

handleInsertUrlImage ==
    \E imageUrlInput \in UrlInputs, t \in ClockReads :
        /\ Step
        /\ UNCHANGED exportVars
        /\ lastOp' = [op |-> "insertUrlImage", inserted |-> imageUrlInput # ""]
        /\ undoneFrom' = NoSnapshot
        /\ IF imageUrlInput = ""
           THEN UNCHANGED <<elements, selectedElementId, history, redoStack,
                            redoOrder, now>>
           ELSE /\ saveHistory(elements)
                /\ now' = t
                /\ elements' = Append(elements,
                       ImageRecord(TimedId("url-img", t), "image", imageUrlInput,
                                   CanvasW \div 2 - 100, CanvasH \div 2 - 100, 200))
                /\ selectedElementId' = TimedId("url-img", t)
        /\ UNCHANGED <<logoImage, flagVars, taskVars, gesture>>

\* handleUpdateElement(id, updates): the single update entry point
handleUpdateElement(id, updates) ==
    /\ history' = PushSnapshot(history, elements)
    /\ redoStack' = <<>>
    /\ redoOrder' = <<>>
    /\ elements' = MapUpdate(elements, id, updates)

\* an id no element ever has
AbsentId == [k |-> "absent", t |-> 0]

\* the property panel's field edits (App.tsx:729-769), and the same entry
\* point called for an id that is not in the store
PanelUpdates(id) ==
    {[x |-> 10]}
    \cup {[width |-> 40] :
            i \in {j \in 1..Len(elements) :
                     elements[j].id = id /\ elements[j].type # "text"}}
    \cup {[style |-> Spread(elements[i].style, [fontSize |-> Px(Num(32))])] :
            i \in {j \in 1..Len(elements) :
                     elements[j].id = id /\ elements[j].type = "text"}}

updateElement ==
    \E id \in ElementIds(elements) \cup {AbsentId} :
        \E updates \in PanelUpdates(id) :
            /\ Step
            /\ UNCHANGED exportVars
            /\ lastOp' = [op |-> "update",
                          call |-> [id |-> id, updates |-> updates]]
            /\ undoneFrom' = NoSnapshot
            /\ handleUpdateElement(id, updates)
            /\ UNCHANGED <<selectedElementId, logoImage, flagVars, now, taskVars,
                           gesture>>

\* a click that reaches the canvas: onClick={() => onSelect(null)}
canvasClick ==
    /\ Step
    /\ UNCHANGED exportVars
    /\ lastOp' = Op("canvasClick")
    /\ undoneFrom' = NoSnapshot
    /\ selectedElementId' = NullId
    /\ UNCHANGED <<elements, history, redoStack, redoOrder, logoImage,
                       flagVars, now, taskVars, gesture>>

----------------------------------------------------------------------------
(* Coordinate mapper (App.tsx:11-35). *)

\* the nine region names of AIAnalysisResult
Regions ==
    {"top-left", "top-center", "top-right", "center-left", "center",
     "center-right", "bottom-left", "bottom-center", "bottom-right"}

\* strings that are not region names (the parameter is typed `string`)
UnknownRegions == {"middle", "right", "top"}

\* pos.includes(word) on the region names and on the unknown names
Includes(pos, word) ==
    CASE word = "left" -> pos \in {"top-left", "center-left", "bottom-left"}
      [] word = "right" ->
            pos \in {"top-right", "center-right", "bottom-right", "right"}
      [] word = "top" -> pos \in {"top-left", "top-center", "top-right", "top"}
      [] word = "bottom" ->
            pos \in {"bottom-left", "bottom-center", "bottom-right"}
      [] word = "center" ->
            pos \in {"top-center", "center-left", "center", "center-right",
                     "bottom-center"}
      [] OTHER -> FALSE

\* mutant of StartsWithCenter: the prefix test never matches
StartsWithCenter_never(pos) == FALSE

\* pos.startsWith('center')
StartsWithCenter(pos) == pos \in {"center-left", "center", "center-right"}

Padding == 50

\* mutant of getCoordinatesFromPosition: the padding is added at the far
\* edge instead of subtracted
getCoordinatesFromPosition_addsPadding(pos, canvasW, canvasH, itemW, itemH) ==
    LET x0 == Padding
        x1 == IF Includes(pos, "right") THEN canvasW - itemW + Padding ELSE x0
        x2 == IF Includes(pos, "center") /\ ~StartsWithCenter(pos)
              THEN (canvasW - itemW) \div 2 ELSE x1
        x3 == IF StartsWithCenter(pos) /\ Includes(pos, "left")
              THEN Padding ELSE x2
        x4 == IF StartsWithCenter(pos) /\ Includes(pos, "right")
              THEN canvasW - itemW + Padding ELSE x3
        x5 == IF StartsWithCenter(pos) /\ pos = "center"
              THEN (canvasW - itemW) \div 2 ELSE x4
        y0 == Padding
        y1 == IF StartsWithCenter(pos) THEN (canvasH - itemH) \div 2 ELSE y0
        y2 == IF Includes(pos, "bottom") THEN canvasH - itemH + Padding ELSE y1
        y3 == IF Includes(pos, "top") THEN Padding ELSE y2
    IN  [x |-> x5, y |-> y3]

\* The dimensions are pixel counts; (a - b) / 2 is computed as (a - b) \div 2,
\* which is the same number whenever a - b is even, and the canvas and item
\* sizes the function is evaluated on (CanvasDims, ItemDims, and the sizes
\* handleGenerateEditableDesign passes) are all even.
getCoordinatesFromPosition(pos, canvasW, canvasH, itemW, itemH) ==
    LET x0 == Padding
        x1 == IF Includes(pos, "right") THEN canvasW - itemW - Padding ELSE x0
        x2 == IF Includes(pos, "center") /\ ~StartsWithCenter(pos)
              THEN (canvasW - itemW) \div 2 ELSE x1
        x3 == IF StartsWithCenter(pos) /\ Includes(pos, "left")
              THEN Padding ELSE x2
        x4 == IF StartsWithCenter(pos) /\ Includes(pos, "right")
              THEN canvasW - itemW - Padding ELSE x3
        x5 == IF StartsWithCenter(pos) /\ pos = "center"
              THEN (canvasW - itemW) \div 2 ELSE x4
        y0 == Padding
        y1 == IF StartsWithCenter(pos) THEN (canvasH - itemH) \div 2 ELSE y0
        y2 == IF Includes(pos, "bottom") THEN canvasH - itemH - Padding ELSE y1
        y3 == IF Includes(pos, "top") THEN Padding ELSE y2
    IN  [x |-> x5, y |-> y3]

\* canvas and item sizes the mapper is evaluated on
CanvasDims == {400, 800}
ItemDims == {100, 300, 380, 750}

\* one call of the mapper, as handleGenerateEditableDesign makes it with the
\* position string of the AI result; the function has no throw statement, so
\* every call returns
resolvePosition ==
    \E pos \in Regions \cup UnknownRegions, canvasW \in CanvasDims,
       canvasH \in CanvasDims, itemW \in ItemDims, itemH \in ItemDims :
        /\ lastOp' = [op |-> "resolvePosition", pos |-> pos,
                      canvasW |-> canvasW, canvasH |-> canvasH,
                      itemW |-> itemW, itemH |-> itemH, threw |-> FALSE,
                      result |-> getCoordinatesFromPosition(pos, canvasW,
                                     canvasH, itemW, itemH)]
        /\ UNCHANGED <<storeVars, flagVars, now, taskVars, gesture,
                       exportVars, undoneFrom, redoOrder, steps>>

----------------------------------------------------------------------------
(* Asynchronous handlers (App.tsx:114-144, 174-306).  Start is the handler *)
(* up to its first await; Finish is its continuation.                      *)

IdleTask == [pc |-> "idle"]
\* no export handler in flight
IdleExport == [pc |-> "idle"]

\* handleLogoUpload up to `await fileToDataUrl(file)`: the continuation
\* keeps the saveHistory of this render, hence this render's `elements`
LogoUploadStart ==
    \E url \in LogoUrls :
        /\ logoTask.pc = "idle"
        /\ logoTask' = [pc |-> "reading", url |-> url, elements |-> elements]
        /\ Step
        /\ UNCHANGED exportVars
        /\ lastOp' = Op("logoUploadStart")
        /\ undoneFrom' = NoSnapshot
        /\ UNCHANGED <<storeVars, flagVars, now, objectTask, designTask,
                       textArtTask, gesture, redoOrder>>

HasLogo(els) == \E i \in 1..Len(els) : els[i].type = "logo"
LogoIndex(els) == CHOOSE i \in 1..Len(els) :
    els[i].type = "logo" /\ \A j \in 1..(i - 1) : els[j].type # "logo"

LogoUploadFinish ==
    /\ logoTask.pc = "reading"
    /\ saveHistory(logoTask.elements)
    /\ logoImage' = logoTask.url
    /\ IF HasLogo(elements)
       THEN /\ selectedElementId' = elements[LogoIndex(elements)].id
            /\ elements' = [i \in 1..Len(elements) |->
                   IF elements[i].type = "logo"
                   THEN Spread(elements[i], [content |-> logoTask.url])
                   ELSE elements[i]]
       ELSE /\ selectedElementId' = MainLogoId
            /\ elements' = Append(elements,
                   ImageRecord(MainLogoId, "logo", logoTask.url,
                               CanvasW - 180, 30, 150))
    /\ logoTask' = IdleTask
    /\ Step
    /\ UNCHANGED exportVars
    /\ lastOp' = [op |-> "logoUploadFinish", inserted |-> ~HasLogo(elements)]
    /\ undoneFrom' = NoSnapshot
    /\ UNCHANGED <<flagVars, now, objectTask, designTask, textArtTask, gesture>>

\* the engine state a handler is called in: the store, the selection and
\* the two stacks
EngineState ==
    [elements |-> elements, selectedElementId |-> selectedElementId,
     history |-> history, redoStack |-> redoStack]

\* objectPrompt / designPrompt when the button is pressed
Prompts == {"", "prompt"}

GenerateAIObjectStart ==
    \E objectPrompt \in Prompts :
        /\ ~isGeneratingObject
        /\ Step
        /\ UNCHANGED exportVars
        /\ lastOp' = Op("aiObjectStart")
        /\ undoneFrom' = NoSnapshot
        /\ IF objectPrompt = ""
           THEN UNCHANGED <<history, redoStack, redoOrder, isGeneratingObject,
                            objectTask>>
           ELSE /\ isGeneratingObject' = TRUE
                /\ saveHistory(elements)
                /\ objectTask' = [pc |-> "pending",
                                  before |-> EngineState]
        /\ UNCHANGED <<elements, selectedElementId, logoImage, isAnalyzing, now,
                       logoTask, designTask, textArtTask, gesture>>

\* generateSticker resolves with a data URL or with null, or an await throws
GenerateAIObjectFinish ==
    \E outcome \in {"image", "null", "throws"}, t \in ClockReads :
        /\ objectTask.pc = "pending"
        /\ Step
        /\ UNCHANGED exportVars
        /\ lastOp' = [op |-> "aiObjectFinish", inserted |-> outcome = "image",
                      outcome |-> outcome, before |-> objectTask.before]
        /\ undoneFrom' = NoSnapshot
        /\ IF outcome = "image"
           THEN /\ now' = t
                /\ elements' = Append(elements,
                       ImageRecord(TimedId("ai-obj", t), "image", StickerImage,
                                   CanvasW \div 2 - 75, CanvasH \div 2 - 75, 150))
                /\ selectedElementId' = TimedId("ai-obj", t)
           ELSE UNCHANGED <<elements, selectedElementId, now>>
        /\ isGeneratingObject' = FALSE
        /\ objectTask' = IdleTask
        /\ UNCHANGED <<history, redoStack, redoOrder, logoImage, isAnalyzing,
                       logoTask, designTask, textArtTask, gesture>>

GenerateTextArtStart ==
    \E designPrompt \in Prompts :
        /\ ~isAnalyzing
        /\ Step
        /\ UNCHANGED exportVars
        /\ lastOp' = Op("textArtStart")
        /\ undoneFrom' = NoSnapshot
        /\ IF designPrompt = ""
           THEN UNCHANGED <<history, redoStack, redoOrder, isAnalyzing,
                            textArtTask>>
           ELSE /\ isAnalyzing' = TRUE
                /\ saveHistory(elements)
                /\ textArtTask' = [pc |-> "pending",
                                   before |-> EngineState]
        /\ UNCHANGED <<elements, selectedElementId, logoImage,
                       isGeneratingObject, now, logoTask, objectTask, designTask,
                       gesture>>

GenerateTextArtFinish ==
    \E outcome \in {"image", "null", "throws"}, t \in ClockReads :
        /\ textArtTask.pc = "pending"
        /\ Step
        /\ UNCHANGED exportVars
        /\ lastOp' = [op |-> "textArtFinish", inserted |-> outcome = "image",
                      outcome |-> outcome, before |-> textArtTask.before]
        /\ undoneFrom' = NoSnapshot
        /\ IF outcome = "image"
           THEN /\ now' = t
                /\ elements' = Append(elements,
                       ImageRecord(TimedId("text-art", t), "image", TextArtImage,
                                   (CanvasW - 400) \div 2, (CanvasH - 200) \div 2,
                                   400))
                /\ selectedElementId' = TimedId("text-art", t)
           ELSE UNCHANGED <<elements, selectedElementId, now>>
        /\ isAnalyzing' = FALSE
        /\ textArtTask' = IdleTask
        /\ UNCHANGED <<history, redoStack, redoOrder, logoImage,
                       isGeneratingObject, logoTask, objectTask, designTask,
                       gesture>>

\* the id the regeneration filter compares with: the literal 'main-text'
MainTextLiteralId == [k |-> "main-text", t |-> -1]

\* results of generateDesign: its fixed fallback (geminiService catch
\* branch, for the prompt "prompt") and one answer of the AI service
FallbackDesign ==
    [textContent |-> "prompt", textColor |-> "#ffffff",
     fontFamily |-> "Inter, sans-serif",
     textShadow |-> "0px 2px 4px rgba(0,0,0,0.5)",
     suggestedTextPosition |-> "center",
     suggestedLogoPosition |-> "bottom-right"]
ServiceDesign ==
    [textContent |-> "Headline", textColor |-> "#000000",
     fontFamily |-> "Playfair Display", textShadow |-> "none",
     suggestedTextPosition |-> "top-left",
     suggestedLogoPosition |-> "top-right"]

\* what the call of the AI service comes to: generateContent rejects, the
\* response has no text, its text is not JSON, or its text is the JSON of
\* a design
ServiceOutcomes == {"rejected", "noText", "notJson", "json"}

\* a response without the fields of a design
EmptyDesign ==
    [textContent |-> Undefined, textColor |-> Undefined,
     fontFamily |-> Undefined, textShadow |-> Undefined,
     suggestedTextPosition |-> Undefined,
     suggestedLogoPosition |-> Undefined]

generateDesign_noTextCheck(userPrompt, outcome, parsed) ==
    CASE outcome = "json" -> parsed
      [] outcome = "noText" -> EmptyDesign
      [] OTHER -> [FallbackDesign EXCEPT !.textContent =
                      IF userPrompt # "" THEN userPrompt ELSE "New Design"]

\* generateDesign: JSON.parse(text) of the response, and the fallback when
\* anything in the try block throws
generateDesign(userPrompt, outcome, parsed) ==
    IF outcome = "json"
    THEN parsed
    ELSE [FallbackDesign EXCEPT !.textContent =
             IF userPrompt # "" THEN userPrompt ELSE "New Design"]

GenerateEditableDesignStart ==
    \E hasInputs \in BOOLEAN :
        /\ ~isAnalyzing
        /\ Step
        /\ UNCHANGED exportVars
        /\ lastOp' = Op("designStart")
        /\ undoneFrom' = NoSnapshot
        /\ IF ~hasInputs
           THEN UNCHANGED <<history, redoStack, redoOrder, isAnalyzing,
                            designTask>>
           ELSE /\ isAnalyzing' = TRUE
                /\ saveHistory(elements)
                /\ designTask' = [pc |-> "pending", elements |-> elements,
                                  logoImage |-> logoImage,
                                  designPrompt |-> "prompt"]
        /\ UNCHANGED <<elements, selectedElementId, logoImage,
                       isGeneratingObject, now, logoTask, objectTask,
                       textArtTask, gesture>>

\* the sequence handleGenerateEditableDesign hands to setElements
DesignElements(closureElements, closureLogo, result, t) ==
    LET filteredElements == FilterOutId(closureElements, MainTextLiteralId)
        textPos == getCoordinatesFromPosition(result.suggestedTextPosition,
                       CanvasW, CanvasH, 300, 100)
        withText == Append(filteredElements,
            TextRecord(TimedId("main-text", t), result.textContent,
                       textPos.x, textPos.y,
                       [color |-> result.textColor,
                        fontFamily |-> result.fontFamily,
                        textShadow |-> IF result.textShadow = "none"
                                       THEN Undefined ELSE result.textShadow,
                        fontSize |-> Px(Num(64))]))
        logoPos == getCoordinatesFromPosition(result.suggestedLogoPosition,
                       CanvasW, CanvasH, 100, 100)
    IN  IF closureLogo # NoImage /\ ~HasLogo(withText)
        THEN Append(withText,
                 ImageRecord(MainLogoId, "logo", closureLogo,
                             logoPos.x, logoPos.y, 150))
        ELSE withText

GenerateEditableDesignFinish ==
    \E outcome \in ServiceOutcomes, throws \in BOOLEAN, t \in ClockReads :
        LET result == generateDesign(designTask.designPrompt, outcome,
                                     ServiceDesign)
        IN
        /\ designTask.pc = "pending"
        /\ Step
        /\ UNCHANGED exportVars
        /\ undoneFrom' = NoSnapshot
        /\ IF throws
           THEN /\ lastOp' = [op |-> "designFinish", inserted |-> FALSE]
                /\ UNCHANGED <<elements, now, gesture>>
           ELSE /\ lastOp' = [op |-> "designFinish", inserted |-> TRUE,
                              service |-> outcome, result |-> result]
                /\ now' = t
                /\ elements' = DesignElements(designTask.elements,
                                   designTask.logoImage, result, t)
                /\ gesture' = Remount(gesture, elements')
        /\ isAnalyzing' = FALSE
        /\ designTask' = IdleTask
        /\ UNCHANGED <<selectedElementId, history, redoStack, redoOrder,
                       logoImage, isGeneratingObject, logoTask, objectTask,
                       textArtTask>>

----------------------------------------------------------------------------
(* Gestures (DraggableElement.tsx:44-141).  One pointer: one element's     *)
(* component is in a gesture at a time; every other component is idle with *)
(* its position synced to the store (DraggableElement.tsx:37-41).          *)

\* pointer coordinates of mousemove events, the pointer's offset inside the
\* element at mousedown, the on-screen origin of the canvas container and
\* the rendered width (offsetWidth) of a text element
Pointers == {[x |-> 100, y |-> 100], [x |-> 200, y |-> 150]}
Offsets == {[x |-> 10, y |-> 5]}
Origins == {[x |-> 0, y |-> 0], [x |-> 20, y |-> 0]}
TextWidths == {200}

\* the element a component renders: its `element` prop
ElementOf(id) ==
    elements[CHOOSE i \in 1..Len(elements) :
        elements[i].id = id /\ \A j \in 1..(i - 1) : elements[j].id # id]

\* Math.max and Math.round(a / b) for b > 0
Max(a, b) == IF a >= b THEN a ELSE b
RoundDiv(a, b) == (2 * a + b) \div (2 * b)

\* parseInt(s, 10) of a font-size string
ParseInt(s) == IF s.num.t = "fin" THEN s.num ELSE NaN

\* the digits of the string "px": the panel's `${e.target.value}px` for an
\* emptied field
NoDigits == [t |-> "none", v |-> 0]

\* parseInt(element.style?.fontSize as string || '48', 10)
StartFontSize(el) ==
    IF "style" \in DOMAIN el /\ "fontSize" \in DOMAIN el.style
    THEN ParseInt(el.style.fontSize)
    ELSE Num(48)

handleMouseDown ==
    \E id \in ElementIds(elements), off \in Offsets :
        /\ gesture.el \in {NullId, id}
        /\ Step
        /\ UNCHANGED exportVars
        /\ lastOp' = Op("mouseDown")
        /\ undoneFrom' = NoSnapshot
        /\ IF gesture.el = id /\ gesture.isResizing
           THEN UNCHANGED <<selectedElementId, gesture>>
           ELSE /\ selectedElementId' = id
                /\ gesture' = WithEffect(gesture,
                     [gesture EXCEPT
                        !.el = id,
                        !.position = IF gesture.el = id THEN @
                                     ELSE [x |-> ElementOf(id).x,
                                           y |-> ElementOf(id).y],
                        !.dragOffset = off,
                        !.isDragging = TRUE,
                        !.moves = IF gesture.el = id THEN @ ELSE 0,
                        !.startSteps = IF gesture.el = id THEN @ ELSE steps,
                        !.startHistLen = IF gesture.el = id THEN @
                                         ELSE Len(history)])
        /\ UNCHANGED <<elements, history, redoStack, redoOrder, logoImage,
                       flagVars, now, taskVars>>

\* the resize handle is rendered only on the selected element
ResizeStart(id, p, textWidth) ==
        /\ selectedElementId = id
        /\ gesture.el \in {NullId, id}
        /\ Step
        /\ UNCHANGED exportVars
        /\ lastOp' = Op("resizeStart")
        /\ undoneFrom' = NoSnapshot
        /\ gesture' = WithEffect(gesture,
             [gesture EXCEPT
                !.el = id,
                !.position = IF gesture.el = id THEN @
                             ELSE [x |-> ElementOf(id).x, y |-> ElementOf(id).y],
                !.isResizing = TRUE,
                !.initialResizeData =
                    [width |-> IF ElementOf(id).type = "text" THEN textWidth
                               ELSE ElementOf(id).width,
                     mouseX |-> p.x, mouseY |-> p.y,
                     fontSize |-> IF ElementOf(id).type = "text"
                                  THEN StartFontSize(ElementOf(id))
                                  ELSE Num(0),
                     isNull |-> FALSE],
                !.moves = IF gesture.el = id THEN @ ELSE 0,
                !.startSteps = IF gesture.el = id THEN @ ELSE steps,
                !.startHistLen = IF gesture.el = id THEN @ ELSE Len(history)])
        /\ UNCHANGED <<storeVars, redoOrder, flagVars, now, taskVars>>

handleResizeStart ==
    \E id \in ElementIds(elements), p \in Pointers, textWidth \in TextWidths :
        ResizeStart(id, p, textWidth)

\* mutant of NewFontSize: the floor of 12 is lost
NewFontSize_noFloor(data, deltaX) ==
    IF data.fontSize.t # "fin" THEN NaN
    ELSE IF data.width = 0
         THEN IF deltaX = 0 \/ data.fontSize.v = 0 THEN NaN
              ELSE IF (deltaX > 0) = (data.fontSize.v > 0) THEN PosInfinity
              ELSE Num(12)
         ELSE Num(RoundDiv(data.fontSize.v * (data.width + deltaX),
                           data.width))

\* the font size a resizing move commits
NewFontSize(data, deltaX) ==
    IF data.fontSize.t # "fin" THEN NaN
    ELSE IF data.width = 0
         THEN IF deltaX = 0 \/ data.fontSize.v = 0 THEN NaN
              ELSE IF (deltaX > 0) = (data.fontSize.v > 0) THEN PosInfinity
              ELSE Num(12)
         ELSE Num(Max(12, RoundDiv(data.fontSize.v * (data.width + deltaX),
                                   data.width)))

\* mutant of ResizeUpdate: the style is replaced, not spread
ResizeUpdate_styleReplaced(el, data, deltaX) ==
    IF el.type \in {"logo", "image"}
    THEN [width |-> Max(20, data.width + deltaX)]
    ELSE [style |-> [fontSize |-> Px(NewFontSize(data, deltaX))]]

\* mutant of ResizeUpdate: the floor of 20 on the width is lost
ResizeUpdate_noClamp(el, data, deltaX) ==
    IF el.type \in {"logo", "image"}
    THEN [width |-> data.width + deltaX]
    ELSE [style |-> Spread(el.style,
                           [fontSize |-> Px(NewFontSize(data, deltaX))])]

\* the update a resizing move hands to onUpdate
ResizeUpdate(el, data, deltaX) ==
    IF el.type \in {"logo", "image"}
    THEN [width |-> Max(20, data.width + deltaX)]
    ELSE [style |-> Spread(el.style,
                           [fontSize |-> Px(NewFontSize(data, deltaX))])]

\* one mousemove event with the pointer at p, received by the window
\* listener
MouseMove(p, origin) ==
        /\ gesture.listening
        /\ gesture.isDragging \/ gesture.isResizing
        /\ Step
        /\ UNCHANGED exportVars
        /\ lastOp' = IF gesture.isResizing
                         /\ gesture.initialResizeData # NoResizeData
                      THEN [op |-> "mouseMove", pointer |-> p,
                            origin |-> origin,
                            call |-> [id |-> gesture.el,
                                      updates |-> ResizeUpdate(
                                          ElementOf(gesture.el),
                                          gesture.initialResizeData,
                                          p.x - gesture.initialResizeData.mouseX)]]
                      ELSE [op |-> "mouseMove", pointer |-> p,
                            origin |-> origin]
        /\ undoneFrom' = NoSnapshot
        /\ LET resizing == gesture.isResizing
                           /\ gesture.initialResizeData # NoResizeData
               position == IF gesture.isDragging
                           THEN [x |-> p.x - origin.x - gesture.dragOffset.x,
                                 y |-> p.y - origin.y - gesture.dragOffset.y]
                           ELSE gesture.position
           IN  /\ gesture' = WithEffect(gesture,
                                [gesture EXCEPT
                                    !.position = position,
                                    !.moves = @ + 1])
               /\ IF resizing
                  THEN /\ handleUpdateElement(gesture.el,
                              ResizeUpdate(ElementOf(gesture.el),
                                  gesture.initialResizeData,
                                  p.x - gesture.initialResizeData.mouseX))
                  ELSE UNCHANGED <<elements, history, redoStack, redoOrder>>
        /\ UNCHANGED <<selectedElementId, logoImage, flagVars, now, taskVars>>

handleMouseMove ==
    \E p \in Pointers, origin \in Origins : MouseMove(p, origin)

\* the mouseup received by the window listener.  The component that
\* comes out of it is kept in the form of IdleGesture (position synced by
\* the effect of DraggableElement.tsx:37-41)
handleMouseUp ==
    /\ gesture.listening
    /\ gesture.isDragging \/ gesture.isResizing
    /\ Step
    /\ UNCHANGED exportVars
    /\ lastOp' = IF gesture.isDragging
                  THEN [op |-> "mouseUp", ended |-> gesture,
                        call |-> [id |-> gesture.el,
                                  updates |-> [x |-> gesture.position.x,
                                               y |-> gesture.position.y]]]
                  ELSE [op |-> "mouseUp", ended |-> gesture]
    /\ undoneFrom' = NoSnapshot
    /\ IF gesture.isDragging
       THEN /\ handleUpdateElement(gesture.el,
                   [x |-> gesture.position.x, y |-> gesture.position.y])
       ELSE UNCHANGED <<elements, history, redoStack, redoOrder>>
    /\ LET released ==
               [gesture EXCEPT
                   !.isDragging = FALSE,
                   !.isResizing = FALSE,
                   !.initialResizeData =
                       IF gesture.isResizing THEN NoResizeData ELSE @]
           rendered == WithEffect(gesture, released)
       IN  gesture' = [IdleGesture EXCEPT
                          !.initialResizeData = rendered.initialResizeData,
                          !.listening = rendered.listening]
    /\ UNCHANGED <<selectedElementId, logoImage, flagVars, now, taskVars>>

\* the click event the browser dispatches on an element after the mouseup
\* of a press on it.  Only the mousedown handlers call stopPropagation:
\* the root of DraggableElement has no onClick, so the click bubbles to
\* #canvas-export-target, whose onClick calls onSelect(null)
elementClick ==
    /\ lastOp.op = "mouseUp"
    /\ lastOp.ended.el \in ElementIds(elements)
    /\ lastOp' = [op |-> "click", target |-> lastOp.ended.el]
    /\ undoneFrom' = NoSnapshot
    /\ selectedElementId' = NullId
    /\ UNCHANGED <<elements, history, redoStack, redoOrder, logoImage,
                   flagVars, now, taskVars, gesture, exportVars, steps>>

----------------------------------------------------------------------------
(* The composition renderer.  App imports ./components/CanvasEditor and    *)
(* passes it transparentBackground={isTransparentMode} (App.tsx:831-839).  *)
(* The repository holds two sources of that component:                     *)
(* src/components/CanvasEditor.tsx, whose mode prop is textOnlyMode, and   *)
(* src/unnamed/part_001, whose mode prop is transparentBackground.  Which  *)
(* of them a build mounts is not decided by the sources, so a rendering is *)
(* computed for each.                                                      *)

CanvasEditors == {"CanvasEditor.tsx", "part_001"}

\* the name of the component's mode prop
ModeProp(editor) ==
    IF editor = "CanvasEditor.tsx" THEN "textOnlyMode"
    ELSE "transparentBackground"

\* the mode props App passes to CanvasEditor
AppProps == [transparentBackground |-> isTransparentMode]

\* a destructured prop with default false
PropOr(props, name) == IF name \in DOMAIN props THEN props[name] ELSE FALSE

\* background image and background colour of #canvas-export-target
Background(editor, props, backgroundImage) ==
    LET mode == PropOr(props, ModeProp(editor))
    IN  [image |-> IF ~mode /\ backgroundImage # NoImage
                   THEN backgroundImage ELSE "none",
         color |-> IF mode THEN "transparent"
                   ELSE IF backgroundImage # NoImage THEN "transparent"
                   ELSE "#e5e5e5"]

\* mutant of RenderedElements: the text-only filter is driven by whichever
\* mode prop the component has
RenderedElements_filtersInMode(editor, props, els) ==
    SelectSeq(els, LAMBDA el :
        ~(PropOr(props, ModeProp(editor)) /\ el.type # "text"))

\* the elements elements.map() renders as DraggableElements
RenderedElements(editor, props, els) ==
    SelectSeq(els, LAMBDA el :
        ~(/\ editor = "CanvasEditor.tsx"
          /\ PropOr(props, "textOnlyMode")
          /\ el.type # "text"))

\* what html2canvas finds in the export target when it is invoked
CapturedTree ==
    [selectedId |-> selectedElementId,
     transparentMode |-> isTransparentMode,
     store |-> elements,
     background |-> [ed \in CanvasEditors |->
                        Background(ed, AppProps, bgImage)],
     rendered |-> [ed \in CanvasEditors |->
                      RenderedElements(ed, AppProps, elements)]]

----------------------------------------------------------------------------
(* Exports (App.tsx:319-521).  An export handler is async: its slot of     *)
(* exportTask holds its position and the values its closure captured when  *)
(* it was called (elements, selectedElementId, bgImage, logoImage:         *)
(* performCapture is the closure of the same render).  pc: renderDelay =   *)
(* the 200 / 250 ms wait before performCapture, captureDelay = the 200 ms  *)
(* wait inside performCapture, capturing = html2canvas in flight, gap =    *)
(* the 100 ms wait of the archive between its two captures, toBlob = the   *)
(* share handler's canvas.toBlob in flight, sharing = navigator.share in   *)
(* flight.  A handler is modelled with the guard of its own first line;    *)
(* whether its control was enabled when it was called is recorded          *)
(* (before.control).  document.getElementById is a read of the DOM: its    *)
(* result is an input of performCapture.                                   *)

\* number of export requests in a behaviour, and of handlers in flight
MaxExports == 2
\* number of editor events (handler runs counted by steps) that a behaviour
\* of ExportSpec interleaves with its exports
MaxExportEdits == 2

BgUrl == "data:image/png;bg"

\* prev.filter(e => e.id === selectedElementId)
KeepId(els, id) == SelectSeq(els, LAMBDA el : el.id = id)

\* el.content.startsWith('data:image')
IsDataImage(content) ==
    content \in {"data:image/png;logo", StickerImage, TextArtImage, BgUrl}

\* the slots of the export handlers in flight
Slots == 1..MaxExports
InFlight == {s \in Slots : exportTask[s].pc # "idle"}
FreeSlot == CHOOSE s \in Slots :
                /\ exportTask[s].pc = "idle"
                /\ \A r \in 1..(s - 1) : exportTask[r].pc # "idle"

\* the disabled attribute of the export buttons (App.tsx:859, 869, 879,
\* 888); the selection button is in the panel of the selected element
ControlEnabled(kind) ==
    CASE kind = "overlay" ->
            /\ ~isDownloading
            /\ \E i \in 1..Len(elements) :
                  elements[i].type \in {"text", "image"}
      [] kind = "selection" -> selectedElementId \in ElementIds(elements)
      [] OTHER -> ~isDownloading /\ bgImage # NoImage

\* zip.file(name, blob): an entry of the archive
ZipEntry(name, index, content) ==
    [name |-> name, index |-> index, content |-> content]

\* steps 1 and 2 of handleDownloadZip
RawLayers(closureBg, closureLogo) ==
    (IF closureBg # NoImage
     THEN {ZipEntry("background.png", 0, closureBg)} ELSE {})
    \cup
    (IF closureLogo # NoImage
     THEN {ZipEntry("logo.png", 0, closureLogo)} ELSE {})

\* step 4 of handleDownloadZip: elements.forEach((el, index) => ...)
AssetEntries(closureElements) ==
    {ZipEntry("assets/element.png", i, closureElements[i].content) :
        i \in {j \in 1..Len(closureElements) :
                  /\ closureElements[j].type = "image"
                  /\ IsDataImage(closureElements[j].content)}}

\* the values at the start of the handler: its closure, the entries of its
\* archive, what its calls of performCapture returned so far, and the
\* state before the call for the export's own record
ExportStart(kind, layer) ==
    [pc |-> "renderDelay", kind |-> kind, layer |-> layer,
     selectedElementId |-> selectedElementId, elements |-> elements,
     zip |-> {}, captures |-> <<>>,
     before |-> [selectedElementId |-> selectedElementId,
                 elements |-> elements, history |-> history,
                 redoStack |-> redoStack, bgImage |-> bgImage,
                 logoImage |-> logoImage,
                 control |-> ControlEnabled(kind)]]

SetTask(s, t) == exportTask' = [exportTask EXCEPT ![s] = t]

\* what every step of an export leaves alone
ExportFrame ==
    /\ undoneFrom' = NoSnapshot
    /\ UNCHANGED <<history, redoStack, redoOrder, logoImage, flagVars, now,
                   taskVars, bgImage, steps>>

\* a handler returns at its guard
Rejected(kind) ==
    /\ lastOp' = [op |-> "exportRejected", kind |-> kind,
                  isDownloading |-> isDownloading,
                  storeSize |-> Len(elements)]
    /\ UNCHANGED <<storeVars, gesture, isDownloading, isTransparentMode,
                   exportTask, exports>>

\* the finally block of the handler of task t, and its end: download and
\* alert say whether a file download was triggered and whether the user
\* was shown a message
Finish(s, t, outcome, download, alert) ==
    /\ isDownloading' = FALSE
    /\ isTransparentMode' =
          IF t.kind \in {"full", "share"} THEN isTransparentMode ELSE FALSE
    /\ elements' = IF t.kind = "selection" THEN t.elements ELSE elements
    /\ gesture' = Remount(gesture, elements')
    /\ SetTask(s, IdleExport)
    /\ lastOp' = [op |-> "exportEnd", kind |-> t.kind, outcome |-> outcome,
                  download |-> download, alert |-> alert, zip |-> t.zip,
                  captures |-> t.captures, before |-> t.before]

\* the handler of task t goes on after performCapture returned: outcome is
\* "canvas", "null" (the target was not found) or "throws"
AfterCapture(s, called, outcome) ==
    LET t == [called EXCEPT !.captures = Append(@, outcome)]
    IN
        CASE t.kind \in {"full", "overlay", "selection"} ->
                Finish(s, t, outcome, outcome = "canvas",
                       t.kind = "full" /\ outcome = "throws")
          [] t.kind = "share" ->
                IF outcome = "canvas"
                THEN /\ isDownloading' = FALSE
                     /\ SetTask(s, [t EXCEPT !.pc = "toBlob"])
                     /\ lastOp' = [op |-> "captured", kind |-> t.kind,
                                   layer |-> t.layer]
                     /\ UNCHANGED <<elements, gesture, isTransparentMode>>
                ELSE Finish(s, t, outcome, FALSE, TRUE)
          [] t.kind = "archive" ->
                IF outcome = "throws"
                THEN Finish(s, t, outcome, FALSE, TRUE)
                ELSE IF t.layer = "overlay"
                THEN /\ isTransparentMode' = FALSE
                     /\ SetTask(s, [t EXCEPT
                            !.pc = "gap", !.layer = "full",
                            !.zip = IF outcome = "canvas"
                                    THEN @ \cup {ZipEntry("design-overlay.png",
                                                    0, "capture:overlay")}
                                    ELSE @])
                     /\ lastOp' = [op |-> "captured", kind |-> t.kind,
                                   layer |-> t.layer]
                     /\ UNCHANGED <<elements, gesture, isDownloading>>
                ELSE Finish(s,
                            [t EXCEPT !.zip =
                                IF outcome = "canvas"
                                THEN @ \cup {ZipEntry("full-design.png", 0,
                                                      "capture:full")}
                                ELSE @],
                            outcome, TRUE, FALSE)

\* a call of performCapture by the handler of task t: the target is not
\* found and performCapture returns null at once, or previousSelection is
\* the closure's selectedElementId, the selection is cleared and
\* performCapture waits 200 ms
CallPerformCapture(s, t, found) ==
    IF found
    THEN /\ selectedElementId' = NullId
         /\ SetTask(s, [t EXCEPT !.pc = "captureDelay"])
         /\ lastOp' = [op |-> "performCapture", kind |-> t.kind,
                       layer |-> t.layer]
         /\ UNCHANGED <<elements, gesture, isTransparentMode>>
    ELSE /\ AfterCapture(s, t, "null")
         /\ UNCHANGED selectedElementId

\* handleDownload as the button, the share handler without
\* navigator.canShare, and the share callback call it; closure is the task
\* record of the calling render
StartDownload(s, closure, found) ==
    /\ IF found
       THEN isDownloading' = TRUE
       ELSE TRUE
    /\ CallPerformCapture(s, [closure EXCEPT !.pc = "captureDelay"], found)

handleDownload ==
    \E found \in BOOLEAN :
        /\ exports < MaxExports
        /\ ExportFrame
        /\ IF isDownloading \/ bgImage = NoImage
           THEN Rejected("full")
           ELSE /\ exports' = exports + 1
                /\ StartDownload(FreeSlot, ExportStart("full", "full"), found)

handleDownloadSelection ==
    /\ exports < MaxExports
    /\ ExportFrame
    /\ IF isDownloading \/ selectedElementId = NullId
       THEN Rejected("selection")
       ELSE /\ exports' = exports + 1
            /\ isDownloading' = TRUE
            /\ isTransparentMode' = TRUE
            /\ elements' = KeepId(elements, selectedElementId)
            /\ gesture' = Remount(gesture, elements')
            /\ SetTask(FreeSlot, ExportStart("selection", "selection"))
            /\ lastOp' = [op |-> "exportStart", kind |-> "selection"]
            /\ UNCHANGED selectedElementId

handleDownloadTextOnly ==
    /\ exports < MaxExports
    /\ ExportFrame
    /\ IF isDownloading \/ Len(elements) = 0
       THEN Rejected("overlay")
       ELSE /\ exports' = exports + 1
            /\ isDownloading' = TRUE
            /\ isTransparentMode' = TRUE
            /\ SetTask(FreeSlot, ExportStart("overlay", "overlay"))
            /\ lastOp' = [op |-> "exportStart", kind |-> "overlay"]
            /\ UNCHANGED <<elements, selectedElementId, gesture>>

\* with an empty store the overlay layer is skipped and the handler goes
\* on to the assets (none) and the full capture
handleDownloadZip ==
    \E found \in BOOLEAN :
        /\ exports < MaxExports
        /\ ExportFrame
        /\ IF isDownloading
           THEN Rejected("archive")
           ELSE /\ exports' = exports + 1
                /\ LET t == [ExportStart("archive", "overlay") EXCEPT
                                !.zip = RawLayers(bgImage, logoImage)]
                   IN  IF Len(elements) > 0
                       THEN /\ found
                            /\ isDownloading' = TRUE
                            /\ isTransparentMode' = TRUE
                            /\ SetTask(FreeSlot, t)
                            /\ lastOp' = [op |-> "exportStart",
                                          kind |-> "archive"]
                            /\ UNCHANGED <<elements, selectedElementId,
                                           gesture>>
                       ELSE StartDownload(FreeSlot,
                                          [t EXCEPT !.layer = "full"], found)

\* without navigator.canShare the handler alerts and calls handleDownload
handleShareWhatsApp ==
    \E canShare \in BOOLEAN, found \in BOOLEAN :
        /\ exports < MaxExports
        /\ ExportFrame
        /\ IF isDownloading \/ bgImage = NoImage
           THEN /\ canShare /\ found
                /\ Rejected("share")
           ELSE /\ exports' = exports + 1
                /\ StartDownload(FreeSlot,
                       ExportStart(IF canShare THEN "share" ELSE "full",
                                   "full"),
                       found)

\* a wait of a handler ends and it calls performCapture; the archive adds
\* its asset entries before its full capture
performCapture ==
    \E s \in InFlight, found \in BOOLEAN :
        /\ exportTask[s].pc \in {"renderDelay", "gap"}
        /\ ExportFrame
        /\ UNCHANGED exports
        /\ LET t == exportTask[s]
               called == IF t.pc = "gap"
                         THEN [t EXCEPT !.zip = @ \cup AssetEntries(t.elements)]
                         ELSE t
           IN  /\ CallPerformCapture(s, called, found)
               /\ IF found THEN UNCHANGED isDownloading ELSE TRUE

\* the 200 ms are over: html2canvas is invoked on the export target
html2canvas ==
    \E s \in InFlight :
        /\ exportTask[s].pc = "captureDelay"
        /\ SetTask(s, [exportTask[s] EXCEPT !.pc = "capturing"])
        /\ lastOp' = [op |-> "html2canvas", kind |-> exportTask[s].kind,
                      layer |-> exportTask[s].layer,
                      before |-> exportTask[s].before, tree |-> CapturedTree]
        /\ ExportFrame
        /\ UNCHANGED <<elements, selectedElementId, gesture, isDownloading,
                       isTransparentMode, exports>>

\* html2canvas settles: performCapture's finally restores a non-null
\* previous selection, then the handler runs on
captureSettles ==
    \E s \in InFlight, outcome \in {"canvas", "throws"} :
        /\ exportTask[s].pc = "capturing"
        /\ selectedElementId' =
              IF exportTask[s].selectedElementId # NullId
              THEN exportTask[s].selectedElementId ELSE selectedElementId
        /\ AfterCapture(s, exportTask[s], outcome)
        /\ ExportFrame
        /\ UNCHANGED exports

\* the callback of canvas.toBlob in the share handler: no blob; or the
\* file can be shared and navigator.share is awaited; or it cannot, and the
\* callback alerts and calls the handleDownload of the render in which the
\* share handler was created (isDownloading false, a background loaded)
shareBlobReady ==
    \E s \in InFlight, result \in {"noBlob", "share", "download"},
       found \in BOOLEAN :
        /\ exportTask[s].pc = "toBlob"
        /\ ExportFrame
        /\ UNCHANGED exports
        /\ CASE result = "noBlob" ->
                  /\ found
                  /\ SetTask(s, IdleExport)
                  /\ lastOp' = [op |-> "shareEnd", shared |-> FALSE]
                  /\ UNCHANGED <<elements, selectedElementId, gesture,
                                 isDownloading, isTransparentMode>>
             [] result = "share" ->
                  /\ found
                  /\ SetTask(s, [exportTask[s] EXCEPT !.pc = "sharing"])
                  /\ lastOp' = Op("navigatorShare")
                  /\ UNCHANGED <<elements, selectedElementId, gesture,
                                 isDownloading, isTransparentMode>>
             [] result = "download" ->
                  StartDownload(s,
                      [ExportStart("full", "full") EXCEPT
                          !.selectedElementId =
                              exportTask[s].selectedElementId,
                          !.elements = exportTask[s].elements],
                      found)

\* navigator.share settles (shared, aborted or failed)
shareSettles ==
    \E s \in InFlight :
        /\ exportTask[s].pc = "sharing"
        /\ SetTask(s, IdleExport)
        /\ lastOp' = [op |-> "shareEnd", shared |-> TRUE]
        /\ ExportFrame
        /\ UNCHANGED <<elements, selectedElementId, gesture, isDownloading,
                       isTransparentMode, exports>>

\* handleBgUpload after fileToDataUrl resolved
handleBgUpload ==
    /\ bgImage = NoImage
    /\ bgImage' = BgUrl
    /\ lastOp' = Op("bgUpload")
    /\ undoneFrom' = NoSnapshot
    /\ UNCHANGED <<storeVars, flagVars, now, taskVars, gesture,
                   isDownloading, isTransparentMode, exportTask, exports,
                   redoOrder, steps>>

----------------------------------------------------------------------------
(* The state machine. *)

Init ==
    /\ elements = <<>>
    /\ selectedElementId = NullId
    /\ history = <<>>
    /\ redoStack = <<>>
    /\ logoImage = NoImage
    /\ isAnalyzing = FALSE
    /\ isGeneratingObject = FALSE
    /\ now = 0
    /\ logoTask = IdleTask
    /\ objectTask = IdleTask
    /\ designTask = IdleTask
    /\ textArtTask = IdleTask
    /\ gesture = IdleGesture
    /\ bgImage = NoImage
    /\ isDownloading = FALSE
    /\ isTransparentMode = FALSE
    /\ exportTask = [s \in Slots |-> IdleExport]
    /\ exports = 0
    /\ lastOp = Op("init")
    /\ undoneFrom = NoSnapshot
    /\ redoOrder = <<>>
    /\ steps = 0

Next ==
    \/ handleUndo
    \/ handleRedo
    \/ handleDeleteSelected
    \/ handleInsertUrlImage
    \/ updateElement
    \/ canvasClick
    \/ LogoUploadStart
    \/ LogoUploadFinish
    \/ GenerateAIObjectStart
    \/ GenerateAIObjectFinish
    \/ GenerateTextArtStart
    \/ GenerateTextArtFinish
    \/ GenerateEditableDesignStart
    \/ GenerateEditableDesignFinish
    \/ handleMouseDown
    \/ handleResizeStart
    \/ handleMouseMove
    \/ handleMouseUp
    \/ elementClick

Spec == Init /\ [][Next]_vars

\* A session in which a design was generated, a logo uploaded, and the
\* property panel set the font size to 48 and the logo's width to 100
\* (App.tsx:729-769 take any number)
SessionText(size) ==
    TextRecord(TimedId("main-text", 1), "Headline", 50, 50,
               [color |-> "#000000", fontFamily |-> "Playfair Display",
                textShadow |-> Undefined, fontSize |-> Px(Num(size))])
SessionLogo(width) ==
    ImageRecord(MainLogoId, "logo", "data:image/png;logo", CanvasW - 180, 30,
                width)

\* pointer positions of the resize gestures: mousedown on the handle at
\* x = 300, moves that displace the pointer by -200, -180, +50, +100 and
\* +200 horizontally and by 0 or 50 vertically
ResizeStartPointers == {[x |-> 300, y |-> 100]}
ResizeMovePointers ==
    {[x |-> 100, y |-> 150], [x |-> 120, y |-> 100], [x |-> 350, y |-> 150],
     [x |-> 400, y |-> 100], [x |-> 500, y |-> 150]}
\* offsetWidth of the text element at mousedown (0: nothing laid out)
ResizeTextWidths == {0, 200}

\* the text of that session after the font-size field of the panel was
\* emptied: its font size is the string "px"
SessionTextCleared ==
    [SessionText(48) EXCEPT !.style.fontSize = Px(NoDigits)]

\* the sessions the resize gestures start from: that session, and the same
\* with the font-size field emptied afterwards
ResizeSessions ==
    {[elements |-> <<SessionText(48), SessionLogo(100)>>,
      history |-> << <<>>, <<SessionText(64)>>,
                     <<SessionText(64), SessionLogo(150)>>,
                     <<SessionText(48), SessionLogo(150)>> >>],
     [elements |-> <<SessionTextCleared, SessionLogo(100)>>,
      history |-> << <<>>, <<SessionText(64)>>,
                     <<SessionText(64), SessionLogo(150)>>,
                     <<SessionText(48), SessionLogo(150)>>,
                     <<SessionText(48), SessionLogo(100)>> >>]}

ResizeInit ==
    /\ \E session \in ResizeSessions :
        /\ elements = session.elements
        /\ history = session.history
    /\ selectedElementId \in {TimedId("main-text", 1), MainLogoId}
    /\ redoStack = <<>>
    /\ logoImage = "data:image/png;logo"
    /\ isAnalyzing = FALSE
    /\ isGeneratingObject = FALSE
    /\ now = 1
    /\ logoTask = IdleTask
    /\ objectTask = IdleTask
    /\ designTask = IdleTask
    /\ textArtTask = IdleTask
    /\ gesture = IdleGesture
    /\ bgImage = BgUrl
    /\ isDownloading = FALSE
    /\ isTransparentMode = FALSE
    /\ exportTask = [s \in Slots |-> IdleExport]
    /\ exports = 0
    /\ lastOp = Op("init")
    /\ undoneFrom = NoSnapshot
    /\ redoOrder = <<>>
    /\ steps = 0

resizeHandleDown ==
    \E id \in ElementIds(elements), p \in ResizeStartPointers,
       textWidth \in ResizeTextWidths :
        ResizeStart(id, p, textWidth)

resizePointerMove ==
    \E p \in ResizeMovePointers, origin \in Origins : MouseMove(p, origin)

\* resize gestures on the store of that session
ResizeNext ==
    \/ handleMouseDown
    \/ resizeHandleDown
    \/ resizePointerMove
    \/ handleMouseUp
    \/ elementClick
ResizeSpec == ResizeInit /\ [][ResizeNext]_vars

\* Sessions the exports start from: one with a background, in which a
\* design was generated, a logo uploaded, the panel used and a URL image
\* inserted; one without a background, with a logo and a URL image; one
\* with a background and an AI sticker; one with a background only
SessionUrlImage ==
    ImageRecord(TimedId("url-img", 2), "image", "http://img",
                CanvasW \div 2 - 100, CanvasH \div 2 - 100, 200)
SessionSticker ==
    ImageRecord(TimedId("ai-obj", 1), "image", StickerImage,
                CanvasW \div 2 - 75, CanvasH \div 2 - 75, 150)
ExportSessions ==
    {[bgImage |-> BgUrl, logoImage |-> "data:image/png;logo",
      elements |-> <<SessionText(48), SessionLogo(100), SessionUrlImage>>,
      history |-> << <<>>, <<SessionText(64)>>,
                     <<SessionText(64), SessionLogo(150)>>,
                     <<SessionText(48), SessionLogo(150)>>,
                     <<SessionText(48), SessionLogo(100)>> >>,
      selections |-> {NullId, TimedId("url-img", 2)}],
     [bgImage |-> NoImage, logoImage |-> "data:image/png;logo",
      elements |-> <<SessionLogo(150), SessionUrlImage>>,
      history |-> << <<>>, <<SessionLogo(150)>> >>,
      selections |-> {NullId, TimedId("url-img", 2)}],
     [bgImage |-> BgUrl, logoImage |-> NoImage,
      elements |-> <<SessionSticker>>,
      history |-> << <<>> >>,
      selections |-> {TimedId("ai-obj", 1)}],
     [bgImage |-> BgUrl, logoImage |-> NoImage,
      elements |-> <<>>,
      history |-> <<>>,
      selections |-> {NullId}]}

\* a behaviour of ExportSpec has MaxExports requests and one editor event
\* less than MaxExportEdits, or MaxExportEdits editor events and one
\* request less: exports and steps count what is used up of each
ExportBudgets ==
    {[exports |-> MaxExports, edits |-> MaxExportEdits - 1],
     [exports |-> MaxExports - 1, edits |-> MaxExportEdits]}

ExportInit ==
    /\ \E session \in ExportSessions :
        /\ bgImage = session.bgImage
        /\ elements = session.elements
        /\ history = session.history
        /\ logoImage = session.logoImage
        /\ selectedElementId \in session.selections
    /\ redoStack = <<>>
    /\ isAnalyzing = FALSE
    /\ isGeneratingObject = FALSE
    /\ now = 2
    /\ logoTask = IdleTask
    /\ objectTask = IdleTask
    /\ designTask = IdleTask
    /\ textArtTask = IdleTask
    /\ gesture = IdleGesture
    /\ isDownloading = FALSE
    /\ isTransparentMode = FALSE
    /\ exportTask = [s \in Slots |-> IdleExport]
    /\ lastOp = Op("init")
    /\ undoneFrom = NoSnapshot
    /\ redoOrder = <<>>
    /\ \E budget \in ExportBudgets :
        /\ exports = MaxExports - budget.exports
        /\ steps = MaxSteps - budget.edits

\* the exports, interleaved with the events of the editor
ExportNext ==
    \/ handleDownload
    \/ handleDownloadSelection
    \/ handleDownloadTextOnly
    \/ handleDownloadZip
    \/ handleShareWhatsApp
    \/ performCapture
    \/ html2canvas
    \/ captureSettles
    \/ shareBlobReady
    \/ shareSettles
    \/ handleBgUpload
    \/ handleMouseDown
    \/ handleMouseUp
    \/ elementClick
    \/ canvasClick
    \/ handleUndo
    \/ handleRedo
    \/ handleDeleteSelected
    \/ handleInsertUrlImage
    \/ updateElement
    \/ GenerateAIObjectStart
    \/ GenerateAIObjectFinish
ExportSpec == ExportInit /\ [][ExportNext]_vars

\* the coordinate mapper on its own: every call on the bounded inputs
MapperNext == resolvePosition
MapperSpec == Init /\ [][MapperNext]_vars

----------------------------------------------------------------------------
(* Properties. *)

\* the step just taken ran handleUndo / handleRedo past its guard
UndoStep == lastOp'.op = "undo" /\ Len(history) # 0
RedoStep == lastOp'.op = "redo" /\ Len(redoStack) # 0

\* C1: an effective undo followed immediately by redo leaves the element
\* sequence equal to the sequence that existed before the undo.
C1_UndoRedoRoundTrip ==
    (lastOp.op = "redo" /\ undoneFrom.set) => elements = undoneFrom.els

\* C1 witness: undo then redo ran on a non-empty sequence, after two
\* mutations.
C1_Witness ==
    /\ lastOp.op = "redo"
    /\ undoneFrom.set
    /\ Len(undoneFrom.els) > 0
    /\ elements = undoneFrom.els
    /\ Len(history) >= 2

\* C2: undo called on an empty undo stack, and redo called on an empty redo
\* stack, leave the element sequence, both stacks and the selection
\* unchanged.
C2_EmptyStackNoOp ==
    [][ (\/ lastOp'.op = "undo" /\ Len(history) = 0
         \/ lastOp'.op = "redo" /\ Len(redoStack) = 0)
        => UNCHANGED <<elements, history, redoStack, selectedElementId>> ]_vars

\* C2 witness: undo was called on an empty undo stack while the store held
\* an element and the redo stack an entry.
C2_Witness ==
    /\ lastOp.op = "undo"
    /\ ~lastOp.effective
    /\ Len(elements) > 0
    /\ Len(redoStack) > 0

\* the handlers other than undo and redo
MutatingOps ==
    {"delete", "insertUrlImage", "update", "logoUploadFinish",
     "aiObjectFinish", "textArtFinish", "designFinish", "mouseMove", "mouseUp"}

\* C3 (as claimed): whenever a handler other than undo and redo changes the
\* element sequence, right after the change the top of the undo stack is
\* the sequence as it was right before the change, and the redo stack is
\* empty.
C3_SnapshotPrecedesMutation ==
    [][ (lastOp'.op \in MutatingOps /\ elements' # elements)
        => /\ Len(history') > 0
           /\ history'[Len(history')] = elements
           /\ redoStack' = <<>> ]_vars

\* C4 (as claimed): a resize gesture of n >= 1 pointer-moves that no other
\* handler interleaves with adds exactly one entry to the undo stack.
C4_OneEntryPerResize ==
    (/\ lastOp.op = "mouseUp"
     /\ lastOp.ended.isResizing
     /\ ~lastOp.ended.isDragging
     /\ lastOp.ended.moves >= 1
     /\ steps = lastOp.ended.startSteps + lastOp.ended.moves + 2)
    => Len(history) = lastOp.ended.startHistLen + 1

\* the entry of the redo stack pushed last / first, by push order
IsNewestPushed(i) == \A j \in DOMAIN redoOrder : redoOrder[j] <= redoOrder[i]
IsOldestPushed(i) == \A j \in DOMAIN redoOrder : redoOrder[j] >= redoOrder[i]

\* C5 (amended): redo removes the front entry of the redo stack and makes it
\* the current sequence, and that front entry is the most recently pushed
\* entry of the redo stack.
C5_RedoTakesNewest ==
    [][ RedoStep
        => /\ elements' = redoStack[1]
           /\ redoStack' = Tail(redoStack)
           /\ IsNewestPushed(1) ]_vars

\* C5 (as claimed): redo removes the front entry of the redo stack and makes
\* it the current sequence, and that front entry is the oldest pushed entry.
C5_RedoTakesOldest ==
    [][ RedoStep
        => /\ elements' = redoStack[1]
           /\ redoStack' = Tail(redoStack)
           /\ IsOldestPushed(1) ]_vars

\* C5 witness: redo ran on a redo stack of two entries pushed by two
\* consecutive undos, and took the one pushed last.
C5_Witness ==
    /\ lastOp.op = "redo"
    /\ lastOp.effective
    /\ Len(redoStack) >= 1
    /\ Len(history) >= 1
    /\ elements # redoStack[1]
    /\ elements # history[Len(history)]

\* els without its k-th element
RemoveAt(els, k) == SubSeq(els, 1, k - 1) \o SubSeq(els, k + 1, Len(els))

\* C6 (as claimed): deleteSelected, called with the id of an element of the
\* store selected, removes exactly that one element, leaves the others and
\* their order unchanged, and clears the selection.
C6_DeleteRemovesOne ==
    [][ (lastOp'.op = "delete" /\ selectedElementId \in ElementIds(elements))
        => /\ \E k \in 1..Len(elements) :
                /\ elements[k].id = selectedElementId
                /\ elements' = RemoveAt(elements, k)
           /\ selectedElementId' = NullId ]_vars

\* C7 (as claimed): the ids of the elements of the store are pairwise
\* distinct.
C7_UniqueIds ==
    \A i, j \in 1..Len(elements) : i # j => elements[i].id # elements[j].id

\* C8 (as claimed): every insertion leaves the existing elements and their
\* order unchanged and places the new element(s) after them.
C8_InsertAppends ==
    [][ (/\ lastOp'.op \in {"insertUrlImage", "logoUploadFinish",
                            "aiObjectFinish", "textArtFinish", "designFinish"}
         /\ lastOp'.inserted)
        => /\ Len(elements') > Len(elements)
           /\ SubSeq(elements', 1, Len(elements)) = elements ]_vars

\* C9 (as claimed): the selected id is none or the id of an element of the
\* store (no export is modelled in flight here).
C9_SelectionInStore ==
    selectedElementId = NullId \/ selectedElementId \in ElementIds(elements)

----------------------------------------------------------------------------
(* The coordinate mapper (checked under MapperSpec). *)

MapperCall == lastOp.op = "resolvePosition"

LeftRegions == {"top-left", "center-left", "bottom-left"}
RightRegions == {"top-right", "center-right", "bottom-right"}
TopRegions == {"top-left", "top-center", "top-right"}
BottomRegions == {"bottom-left", "bottom-center", "bottom-right"}

\* C11: for each of the nine region names the mapper returns x = padding in
\* the -left regions, (canvasW - itemW) / 2 in top-center, center and
\* bottom-center, canvasW - itemW - padding in the -right regions, and y =
\* padding in the top- regions, (canvasH - itemH) / 2 in center-left, center
\* and center-right, canvasH - itemH - padding in the bottom- regions; on an
\* 800x800 canvas bottom-right with a 100x100 item is (650, 650) and center
\* with a 300x100 item is (250, 350).
C11_RegionCoordinates ==
    (MapperCall /\ lastOp.pos \in Regions) =>
        LET c == lastOp
            r == lastOp.result
        IN  /\ r.x = IF c.pos \in LeftRegions THEN 50
                     ELSE IF c.pos \in RightRegions
                          THEN c.canvasW - c.itemW - 50
                          ELSE (c.canvasW - c.itemW) \div 2
            /\ r.y = IF c.pos \in TopRegions THEN 50
                     ELSE IF c.pos \in BottomRegions
                          THEN c.canvasH - c.itemH - 50
                          ELSE (c.canvasH - c.itemH) \div 2
            /\ (c.pos = "bottom-right" /\ c.canvasW = 800 /\ c.canvasH = 800
                    /\ c.itemW = 100 /\ c.itemH = 100)
                   => r = [x |-> 650, y |-> 650]
            /\ (c.pos = "center" /\ c.canvasW = 800 /\ c.canvasH = 800
                    /\ c.itemW = 300 /\ c.itemH = 100)
                   => r = [x |-> 250, y |-> 350]

C11_Witness ==
    /\ MapperCall
    /\ lastOp.pos = "center"
    /\ lastOp.canvasW = 800 /\ lastOp.canvasH = 800
    /\ lastOp.itemW = 300 /\ lastOp.itemH = 100
    /\ lastOp.result = [x |-> 250, y |-> 350]

\* C12 as stated: for each of the nine regions and all positive canvas and
\* item dimensions, the returned coordinate lies in
\* [padding, canvasDim - itemDim - padding] on each axis.
C12_WithinPaddedBox ==
    (MapperCall /\ lastOp.pos \in Regions) =>
        /\ 50 <= lastOp.result.x
        /\ lastOp.result.x <= lastOp.canvasW - lastOp.itemW - 50
        /\ 50 <= lastOp.result.y
        /\ lastOp.result.y <= lastOp.canvasH - lastOp.itemH - 50

\* C12 amended: on every axis on which the item and both paddings fit
\* (itemDim + 2 * padding <= canvasDim), the returned coordinate lies in
\* [padding, canvasDim - itemDim - padding].
C12_WithinPaddedBoxWhenFits ==
    (MapperCall /\ lastOp.pos \in Regions) =>
        /\ lastOp.itemW + 100 <= lastOp.canvasW =>
              /\ 50 <= lastOp.result.x
              /\ lastOp.result.x <= lastOp.canvasW - lastOp.itemW - 50
        /\ lastOp.itemH + 100 <= lastOp.canvasH =>
              /\ 50 <= lastOp.result.y
              /\ lastOp.result.y <= lastOp.canvasH - lastOp.itemH - 50

C12_Witness ==
    /\ MapperCall
    /\ lastOp.pos = "bottom-right"
    /\ lastOp.canvasW = 400 /\ lastOp.itemW = 300
    /\ lastOp.canvasH = 800 /\ lastOp.itemH = 380
    /\ lastOp.result = [x |-> 50, y |-> 370]

\* C13: a call with a name that is not one of the nine region names fails
\* with an error and returns no coordinates.
C13_UnknownRegionFails ==
    (MapperCall /\ lastOp.pos \notin Regions) => lastOp.threw

----------------------------------------------------------------------------
(* Resizing (checked under ResizeSpec). *)

\* a pointer-move of a resize gesture on the element under the pointer
ResizeMoveOf(types) ==
    /\ lastOp'.op = "mouseMove"
    /\ gesture.isResizing
    /\ gesture.initialResizeData # NoResizeData
    /\ ElementOf(gesture.el).type \in types

\* horizontal displacement of the pointer since the resize started
MoveDelta == lastOp'.pointer.x - gesture.initialResizeData.mouseX

\* C14: while a logo or image element is resized, every pointer-move commits
\* width = max(20, startWidth + delta), with startWidth the width recorded
\* at resize start and delta the horizontal displacement since then,
\* whatever the vertical displacement; startWidth 100 gives 150 for delta
\* +50 and 20 for delta -200, and the committed width is never below 20.
C14_ImageResizeWidth ==
    [][ ResizeMoveOf({"logo", "image"}) =>
          LET startWidth == gesture.initialResizeData.width
              sum == startWidth + MoveDelta
              width == IF sum >= 20 THEN sum ELSE 20
          IN  /\ \A i \in 1..Len(elements) :
                    elements[i].id = gesture.el =>
                        /\ elements'[i].width = width
                        /\ elements'[i].width >= 20
              /\ Len(elements') = Len(elements)
              /\ (startWidth = 100 /\ MoveDelta = 50) =>
                    ElementOf(gesture.el)'.width = 150
              /\ (startWidth = 100 /\ MoveDelta = -200) =>
                    ElementOf(gesture.el)'.width = 20 ]_vars

C14_Witness ==
    /\ lastOp.op = "mouseMove"
    /\ gesture.isResizing
    /\ gesture.el = MainLogoId
    /\ gesture.initialResizeData.width = 100
    /\ lastOp.pointer.x - gesture.initialResizeData.mouseX = -200
    /\ lastOp.pointer.y # gesture.initialResizeData.mouseY
    /\ ElementOf(MainLogoId).width = 20

\* C15: while a text element is resized with a positive startWidth (and a
\* numeric start font size), every pointer-move commits font size =
\* max(12, round(startFontSize * (startWidth + delta) / startWidth));
\* startWidth 200 and start font size 48 give 96 for delta +200 and 72 for
\* delta +100, and the committed size is never below 12.  n is the rounded
\* quotient a / b iff 2bn - b <= 2a < 2bn + b.
C15_TextResizeFontSize ==
    [][ (/\ ResizeMoveOf({"text"})
         /\ gesture.initialResizeData.width > 0
         /\ gesture.initialResizeData.fontSize.t = "fin") =>
          LET b == gesture.initialResizeData.width
              startFontSize == gesture.initialResizeData.fontSize.v
              a == startFontSize * (b + MoveDelta)
          IN  \A i \in 1..Len(elements) :
                elements[i].id = gesture.el =>
                  LET size == elements'[i].style.fontSize
                  IN  /\ size.unit = "px"
                      /\ size.num.t = "fin"
                      /\ size.num.v >= 12
                      /\ size.num.v > 12 =>
                            /\ 2 * b * size.num.v - b <= 2 * a
                            /\ 2 * a < 2 * b * size.num.v + b
                      /\ size.num.v = 12 => 2 * a < 2 * b * 12 + b
                      /\ (b = 200 /\ startFontSize = 48 /\ MoveDelta = 200)
                            => size.num.v = 96
                      /\ (b = 200 /\ startFontSize = 48 /\ MoveDelta = 100)
                            => size.num.v = 72 ]_vars

C15_Witness ==
    /\ lastOp.op = "mouseMove"
    /\ gesture.isResizing
    /\ gesture.el = TimedId("main-text", 1)
    /\ gesture.initialResizeData.width = 200
    /\ gesture.initialResizeData.fontSize = Num(48)
    /\ lastOp.pointer.x - gesture.initialResizeData.mouseX = 100
    /\ ElementOf(TimedId("main-text", 1)).style.fontSize = Px(Num(72))

----------------------------------------------------------------------------
(* Exports and the renderer (checked under ExportSpec). *)

\* html2canvas has just been invoked / an export has just ended
CaptureInvoked == lastOp.op = "html2canvas"
ExportEnded == lastOp.op = "exportEnd"

\* C16: in every export variant, at the moment html2canvas is invoked
\* selectedId is none, for every interleaving of selection events and
\* AI-call resolutions with the delay between clearing the selection and
\* the capture.
C16_CaptureWithoutSelection ==
    CaptureInvoked => lastOp.tree.selectedId = NullId

\* C17: after any export ends, whether its capture succeeded or threw,
\* selectedId equals the value it had immediately before the export
\* started (the archive runs the capture protocol twice).
C17_SelectionRestored ==
    ExportEnded => selectedElementId = lastOp.before.selectedElementId

\* C18: exportSelection captures a store that contains exactly the one
\* selected element, and when it ends (success or failure) the element
\* sequence equals the full sequence that existed before it started, while
\* undoStack and redoStack are the same at its end as at its start.
C18_SelectionExportFrame ==
    /\ (CaptureInvoked /\ lastOp.kind = "selection") =>
          /\ Len(lastOp.tree.store) = 1
          /\ lastOp.tree.store[1].id = lastOp.before.selectedElementId
    /\ (ExportEnded /\ lastOp.kind = "selection") =>
          /\ elements = lastOp.before.elements
          /\ history = lastOp.before.history
          /\ redoStack = lastOp.before.redoStack

\* C19: whenever isTransparentMode is true, the CanvasEditor App mounts
\* paints no background image and no background fill on the export target;
\* when it is false it paints the background image, or the neutral fill if
\* there is no image.
C19_TransparentModeSuppressesBackground ==
    \A ed \in CanvasEditors :
        LET painted == Background(ed, AppProps, bgImage)
        IN  IF isTransparentMode
            THEN painted = [image |-> "none", color |-> "transparent"]
            ELSE IF bgImage # NoImage
                 THEN painted = [image |-> bgImage, color |-> "transparent"]
                 ELSE painted = [image |-> "none", color |-> "#e5e5e5"]

ExportEndOf(kind) == lastOp.op = "exportEnd" /\ lastOp.kind = kind

\* every call of performCapture returned a canvas
AllCanvas(captures) == \A i \in 1..Len(captures) : captures[i] = "canvas"

\* the entries the archive is to hold for the state the export was
\* requested in
ExpectedArchive(before) ==
    RawLayers(before.bgImage, before.logoImage)
    \cup {ZipEntry("design-overlay.png", 0, "capture:overlay")}
    \cup AssetEntries(before.elements)
    \cup {ZipEntry("full-design.png", 0, "capture:full")}

\* C21: an archive export requested through its control, whose captures
\* all return a canvas, ends with the download of an archive that holds
\* exactly: the raw background iff one is loaded, the raw logo iff one is
\* loaded, one overlay capture, one asset entry (named by its index) for
\* every image element with embedded data, and one full capture.
C21_ArchiveContents ==
    (ExportEndOf("archive") /\ lastOp.before.control
        /\ AllCanvas(lastOp.captures)) =>
        /\ lastOp.download
        /\ lastOp.zip = ExpectedArchive(lastOp.before)

\* the same with at least one element in the store at the request
C21_ArchiveContentsOfNonEmptyStore ==
    (ExportEndOf("archive") /\ lastOp.before.control
        /\ AllCanvas(lastOp.captures)
        /\ Len(lastOp.before.elements) > 0) =>
        /\ lastOp.download
        /\ lastOp.zip = ExpectedArchive(lastOp.before)

\* the step just taken ended an export in which a call of performCapture
\* returned null or threw
CaptureFailed == lastOp.op = "exportEnd" /\ ~AllCanvas(lastOp.captures)

\* C22: an export variant (full, overlay, selection, archive) in which a
\* capture returned null or threw triggers no download: no image file, and
\* no archive.
C22_NoDownloadOnCaptureFailure ==
    (CaptureFailed
        /\ lastOp.kind \in {"full", "overlay", "selection", "archive"}) =>
        ~lastOp.download

\* C23: every export in which a capture returned null or threw showed the
\* user a message.
C23_CaptureFailureSignalled == CaptureFailed => lastOp.alert

\* C24: handleDownloadTextOnly called with an empty store and no export in
\* flight does not return at its guard: it goes on to its transparent
\* capture.
C24_OverlayOfEmptyStoreAccepted ==
    ~(/\ lastOp.op = "exportRejected"
      /\ lastOp.kind = "overlay"
      /\ ~lastOp.isDownloading
      /\ lastOp.storeSize = 0)

\* C25: at most one export handler is in flight, and isDownloading is true
\* as long as one is: until it has finished all of its work.
C25_SingleExportInFlight ==
    /\ Cardinality(InFlight) <= 1
    /\ InFlight # {} => isDownloading

\* the part of C25 about requests: the step of a handler called from its
\* control while isDownloading is true changes nothing but the record of
\* the call
C25_RequestInFlightRejected ==
    [][(isDownloading
            /\ (exports' # exports \/ lastOp'.op = "exportRejected"))
        => /\ lastOp'.op = "exportRejected"
           /\ UNCHANGED <<storeVars, gesture, exportVars>>]_vars

GenerationReturnedNothing ==
    /\ lastOp.op \in {"aiObjectFinish", "textArtFinish"}
    /\ lastOp.outcome = "null"

\* C27: when the sticker or typography image service returns no result,
\* the element sequence, the selection, the undo stack and the redo stack
\* after the failed call equal their values before the call was started.
C27_FailedGenerationChangesNothing ==
    GenerationReturnedNothing => EngineState = lastOp.before

\* the text elements of the store that an AI design generation produced
\* (their ids are main-text-<Date.now()>)
MainTexts(els) == SelectSeq(els, LAMBDA el : el.id.k = "main-text")

\* C28: after an AI design generation commits, the store holds exactly one
\* AI-generated primary text element: the new one has replaced the one of
\* an earlier generation.
C28_OneMainText ==
    (lastOp.op = "designFinish" /\ lastOp.inserted) =>
        Len(MainTexts(elements)) = 1

\* C29: the DraggableElement of an element is never in the dragging and in
\* the resizing mode at the same time, for every order of pointer-down on
\* its body, pointer-down on its resize handle, pointer-move and
\* pointer-up.
C29_ExclusiveGestures == ~(gesture.isDragging /\ gesture.isResizing)

\* the part of C29 about a drag start while resizing: handleMouseDown
\* changes no gesture state
C29_DragStartWhileResizingRejected ==
    [][(gesture.isResizing /\ ~gesture.isDragging
            /\ lastOp'.op = "mouseDown") => UNCHANGED gesture]_vars

\* C30: after the click event of a click on an element (pointer-down,
\* pointer-up, click), the selection is that element: the handler of the
\* canvas that clears the selection has not run for that click.
C30_ClickSelectsElement ==
    lastOp.op = "click" => selectedElementId = lastOp.target

----------------------------------------------------------------------------
(* Drag gestures. *)

\* the step is a pointer-move / the pointer-up of a gesture
MoveStep == lastOp'.op = "mouseMove"
UpStep == lastOp'.op = "mouseUp"

\* C31: every pointer-move while dragging leaves the element sequence, the
\* undo stack and the redo stack unchanged (it changes only the live
\* position), and the pointer-up that ends the drag adds the one entry of
\* the gesture to the undo stack.
C31_DragCommitsAtPointerUp ==
    [][ /\ (gesture.isDragging /\ MoveStep) =>
              UNCHANGED <<elements, history, redoStack>>
        /\ (gesture.isDragging /\ UpStep) =>
              Len(history') = Len(history) + 1 ]_vars

\* the same for a component that is dragging and not resizing
C31_PureDragCommitsAtPointerUp ==
    [][ /\ (gesture.isDragging /\ ~gesture.isResizing /\ MoveStep) =>
              /\ UNCHANGED <<elements, history, redoStack>>
              /\ gesture'.isDragging
        /\ (gesture.isDragging /\ ~gesture.isResizing /\ UpStep) =>
              Len(history') = Len(history) + 1 ]_vars

C32_DragCommitsLivePositionOfUniqueIds ==
    [][ /\ (gesture.isDragging /\ MoveStep) =>
              gesture'.position =
                  [x |-> lastOp'.pointer.x - lastOp'.origin.x
                            - gesture.dragOffset.x,
                   y |-> lastOp'.pointer.y - lastOp'.origin.y
                            - gesture.dragOffset.y]
        /\ (gesture.isDragging /\ UpStep) =>
              /\ \A i \in 1..Len(elements) :
                    elements[i].id = gesture.el =>
                        /\ elements'[i].x = gesture.position.x
                        /\ elements'[i].y = gesture.position.y
              /\ (/\ gesture.moves = 0
                  /\ steps = gesture.startSteps + 1
                  /\ Cardinality(ElementIds(elements)) = Len(elements)) =>
                    elements' = elements ]_vars

----------------------------------------------------------------------------
(* Resize start and degenerate sizes (checked under ResizeSpec). *)

\* the step is a resize start on a text element
TextResizeStartStep ==
    /\ lastOp'.op = "resizeStart"
    /\ ElementOf(gesture'.el).type = "text"

\* the font size of a style is a string with a leading integer
Parseable(style) == "fontSize" \in DOMAIN style /\ style.fontSize.num.t = "fin"

\* C33: at resize start of a text element the recorded starting font size
\* is the integer parsed from the element's style font size, and it is 48
\* whenever the style has no font size or its font size cannot be parsed
\* as a number.
C33_StartFontSize ==
    [][ TextResizeStartStep =>
          LET style == ElementOf(gesture'.el).style
              recorded == gesture'.initialResizeData.fontSize
          IN  IF Parseable(style)
              THEN recorded = style.fontSize.num
              ELSE recorded = Num(48) ]_vars

\* the same for a style whose font size has a leading integer or is absent
C33_StartFontSizeOfParseable ==
    [][ TextResizeStartStep =>
          LET style == ElementOf(gesture'.el).style
              recorded == gesture'.initialResizeData.fontSize
          IN  /\ Parseable(style) => recorded = style.fontSize.num
              /\ "fontSize" \notin DOMAIN style => recorded = Num(48) ]_vars

\* C34: every pointer-move of a resize gesture that started with a
\* starting width of zero commits a finite size: a width >= 20 for a logo
\* or an image, a font size >= 12 for a text element.
C34_NoBlowUpFromZeroWidth ==
    [][ (/\ ResizeMoveOf({"logo", "image", "text"})
         /\ gesture.initialResizeData.width = 0) =>
          \A i \in 1..Len(elements) :
             elements[i].id = gesture.el =>
                IF elements[i].type = "text"
                THEN /\ elements'[i].style.fontSize.num.t = "fin"
                     /\ elements'[i].style.fontSize.num.v >= 12
                ELSE elements'[i].width >= 20 ]_vars

\* C35: a font-size commit of a text resize changes only the font size of
\* that element's style: its other style fields and its other fields keep
\* the values they have in the store at the commit, and so does every
\* other element.
C35_FontSizeCommitFrame ==
    [][ ResizeMoveOf({"text"}) =>
          /\ Len(elements') = Len(elements)
          /\ \A i \in 1..Len(elements) :
                IF elements[i].id = gesture.el
                THEN elements'[i] =
                        [elements[i] EXCEPT
                            !.style = [@ EXCEPT !.fontSize =
                                          elements'[i].style.fontSize]]
                ELSE elements'[i] = elements[i] ]_vars

\* a commit that changed the font size of a text with a colour, a font
\* family and a shadow field
C35_Witness ==
    /\ lastOp.op = "mouseMove"
    /\ gesture.isResizing
    /\ gesture.el = TimedId("main-text", 1)
    /\ ElementOf(gesture.el).style.fontSize = Px(Num(60))
    /\ ElementOf(gesture.el).style.color = "#000000"
    /\ ElementOf(gesture.el).style.fontFamily = "Playfair Display"
    /\ ElementOf(gesture.el).content = "Headline"

----------------------------------------------------------------------------
(* Listeners of a gesture. *)

\* C36: the window mousemove and mouseup listeners of a component are
\* registered iff it is dragging or resizing, and after a pointer-up, in
\* either mode, it is idle: isDragging and isResizing are false, its resize
\* start data is null and its listeners are removed.
C36_ListenersForGestureOnly ==
    /\ gesture.listening <=> (gesture.isDragging \/ gesture.isResizing)
    /\ lastOp.op = "mouseUp" =>
          /\ ~gesture.isDragging
          /\ ~gesture.isResizing
          /\ gesture.initialResizeData = NoResizeData
          /\ ~gesture.listening

\* a pointer-up has ended a gesture that was resizing with its listeners
\* registered
C36_Witness ==
    /\ lastOp.op = "mouseUp"
    /\ lastOp.ended.isResizing
    /\ lastOp.ended.listening
    /\ lastOp.ended.initialResizeData # NoResizeData
    /\ ~gesture.listening

----------------------------------------------------------------------------
(* Undo, redo and the selection. *)

\* C37: handleUndo and handleRedo never change selectedElementId: after
\* either of them it is what it was before.
C37_UndoRedoKeepSelection ==
    [][lastOp'.op \in {"undo", "redo"} =>
          selectedElementId' = selectedElementId]_vars

\* an effective undo has run with an element selected, and the element is
\* not in the sequence it restored
C37_Witness ==
    /\ lastOp.op = "undo"
    /\ lastOp.effective
    /\ selectedElementId # NullId
    /\ selectedElementId \notin ElementIds(elements)

\* an effective redo has run with an element selected
C37_WitnessRedo ==
    /\ lastOp.op = "redo"
    /\ lastOp.effective
    /\ selectedElementId # NullId

----------------------------------------------------------------------------
(* The end of an export. *)

\* C38 (the state at the end): when an export ends, with a capture, with
\* none or with an exception, isDownloading and isTransparentMode are false.
C38_FlagsClearAtExportEnd ==
    lastOp.op = "exportEnd" => ~isDownloading /\ ~isTransparentMode

\* no flag stays set once no export handler is in flight
C38_NoFlagStuck ==
    InFlight = {} => ~isDownloading /\ ~isTransparentMode


\* the handler of slot s is waiting for a delay or for html2canvas
Waiting(s) ==
    exportTask[s].pc \in {"renderDelay", "captureDelay", "capturing", "gap"}

\* the delays and the capture primitive return: the step of slot s that
\* follows each of them is taken
DelaysReturn ==
    \A s \in Slots :
        /\ WF_vars(performCapture /\ exportTask'[s] # exportTask[s])
        /\ WF_vars(html2canvas /\ exportTask'[s] # exportTask[s])
        /\ WF_vars(captureSettles /\ exportTask'[s] # exportTask[s])

ExportFairSpec == ExportSpec /\ DelaysReturn

\* C38 (termination, under ExportFairSpec): every handler that waits for a
\* delay or a capture runs to its end
C38_EveryExportEnds ==
    \A s \in Slots : Waiting(s) ~> ~Waiting(s)

\* the flags at the end of the exports that set isTransparentMode
C38_FlagsClearAtOwnExportEnd ==
    (lastOp.op = "exportEnd"
        /\ lastOp.kind \in {"selection", "overlay", "archive"})
    => ~isDownloading /\ ~isTransparentMode

----------------------------------------------------------------------------
(* Edits during a design generation. *)

\* the step just taken is the commit of a design generation
DesignCommitStep == lastOp'.op = "designFinish" /\ lastOp'.inserted

\* the elements of the store that were inserted or changed after the
\* generation in flight was started
ChangedSinceDesignStart ==
    {elements[i] : i \in 1..Len(elements)}
        \ {designTask.elements[i] : i \in 1..Len(designTask.elements)}

\* C39: what happens while handleGenerateEditableDesign is in flight is not
\* lost: every element inserted, and every element with a field updated,
\* between the call and its resolution is in the element sequence after the
\* generation has committed its result.
C39_EditsSurviveDesignCommit ==
    [][DesignCommitStep =>
          \A el \in ChangedSinceDesignStart :
              \E j \in 1..Len(elements') : elements'[j] = el]_vars

----------------------------------------------------------------------------
(* The filtered sequence of a selection export. *)

\* the entries of the undo and redo stacks
StackEntries(h, r) ==
    {h[i] : i \in 1..Len(h)} \cup {r[i] : i \in 1..Len(r)}

\* the sequence handleDownloadSelection installed for its capture
Isolated(t) == KeepId(t.elements, t.selectedElementId)

\* C40: the one-element sequence that handleDownloadSelection installs
\* while it captures never becomes an entry of history or redoStack,
\* whatever undo, redo, update or gesture commit runs while the export is
\* in flight.  (Checked for the exports whose isolated sequence differs from
\* the sequence they started from and was in neither stack at the start.)
C40_IsolatedSequenceNotInStacks ==
    \A s \in InFlight :
        LET t == exportTask[s] IN
        (/\ t.kind = "selection"
         /\ Isolated(t) # t.elements
         /\ Isolated(t) \notin StackEntries(t.before.history,
                                            t.before.redoStack))
        => Isolated(t) \notin StackEntries(history, redoStack)

=============================================================================
